---- MODULE Spec2Model ----
(***************************************************************************)
(* Model of the HTML element tree builder and its indenting serializer     *)
(* (src/src/lib.rs).  Text is a sequence of one-character strings, an      *)
(* Option<T> is a sequence of length 0 (None) or 1 (Some), a Vec<T> is a   *)
(* sequence.  The caller owns a stack of elements under construction; the  *)
(* builder methods act on the top one and add_child moves elements out of  *)
(* the stack into their parent, as Rust's move semantics require.          *)
(***************************************************************************)
EXTENDS Integers, Sequences, FiniteSets, TLC

VARIABLES
  elems,    \* the elements the caller owns, the one under construction last
  hist,     \* per owned element: the name and void flag it was constructed with
            \* and the set_attr / set_class calls made on it
  doc,      \* Option<HtmlDocument>
  docArgs,  \* the arguments HtmlDocument::new was called with
  buffer,   \* the text of the last serialization
  op,       \* the last call and its arguments
  nops,     \* number of calls made
  pc        \* "build", "doc" (a document exists) or "done" (serialized)

vars == <<elems, hist, doc, docArgs, buffer, op, nops, pc>>

(* ------------------------------ bounds --------------------------------- *)

\* number of calls the caller makes (constructors, builder methods, serializations)
MaxOps == 5

\* deepest indent level, in units of INDENT, the caller passes to the public write
MaxLevel == 1

(* --------------------------- program constants -------------------------- *)

NL == "\n"

WS == <<" ">>

INDENT == 2

HREF_XMLNS ==
  <<"h","t","t","p",":","/","/","w","w","w",".","w","3",".","o","r","g","/","1","9","9","9","/",
    "x","h","t","m","l">>

HREF_FONT_NORMAL ==
  <<"h","t","t","p","s",":","/","/","f","o","n","t","s",".","g","o","o","g","l","e","a","p","i",
    "s",".","c","o","m","/","c","s","s","2","?","f","a","m","i","l","y","=","B","a","r","l","o",
    "w",":","i","t","a","l",",","w","g","h","t","@","0",",","3","0","0",";","0",",","4","0","0",
    ";","0",",","5","0","0",";","0",",","6","0","0",";","1",",","3","0","0",";","1",",","4","0",
    "0",";","1",",","5","0","0",";","1",",","6","0","0","&","d","i","s","p","l","a","y","=","s",
    "w","a","p">>

HREF_FONT_CONDENSED ==
  <<"h","t","t","p","s",":","/","/","f","o","n","t","s",".","g","o","o","g","l","e","a","p","i",
    "s",".","c","o","m","/","c","s","s","2","?","f","a","m","i","l","y","=","B","a","r","l","o",
    "w","+","C","o","n","d","e","n","s","e","d",":","i","t","a","l",",","w","g","h","t","@","0",
    ",","3","0","0",";","0",",","4","0","0",";","0",",","5","0","0",";","0",",","6","0","0",";",
    "1",",","3","0","0",";","1",",","4","0","0",";","1",",","5","0","0",";","1",",","6","0","0",
    "&","d","i","s","p","l","a","y","=","s","w","a","p">>

HREF_FONT_MONO ==
  <<"h","t","t","p","s",":","/","/","f","o","n","t","s",".","g","o","o","g","l","e","a","p","i",
    "s",".","c","o","m","/","c","s","s","2","?","f","a","m","i","l","y","=","J","e","t","B","r",
    "a","i","n","s","+","M","o","n","o",":","i","t","a","l",",","w","g","h","t","@","0",",","3",
    "0","0",";","0",",","4","0","0",";","0",",","5","0","0",";","0",",","6","0","0",";","1",",",
    "3","0","0",";","1",",","4","0","0",";","1",",","5","0","0",";","1",",","6","0","0","&","d",
    "i","s","p","l","a","y","=","s","w","a","p">>

(* ------------------------------- text ---------------------------------- *)

None == <<>>

Some(x) == <<x>>

S_div == <<"d","i","v">>

S_class == <<"c","l","a","s","s">>

S_html == <<"h","t","m","l">>

S_head == <<"h","e","a","d">>

S_meta == <<"m","e","t","a">>

S_title == <<"t","i","t","l","e">>

S_link == <<"l","i","n","k">>

S_style == <<"s","t","y","l","e">>

S_lang == <<"l","a","n","g">>

S_xmlns == <<"x","m","l","n","s">>

S_charset == <<"c","h","a","r","s","e","t">>

S_UTF8 == <<"U","T","F","-","8">>

S_rel == <<"r","e","l">>

S_href == <<"h","r","e","f">>

S_stylesheet == <<"s","t","y","l","e","s","h","e","e","t">>

S_DMN_Model == <<"D","M","N"," ","M","o","d","e","l">>

S_DOCTYPE == <<"<","!","D","O","C","T","Y","P","E"," ","h","t","m","l",">">>

\* a caller's attribute value of some type T: ToString, a &str or an integer
StrV(s) == [kind |-> "str", s |-> s]

IntV(n) == [kind |-> "int", n |-> n]

Digits == <<"0","1","2","3","4","5","6","7","8","9">>

RECURSIVE Decimal(_)
Decimal(n) ==
  IF n < 10 THEN <<Digits[n + 1]>>
  ELSE Decimal(n \div 10) \o <<Digits[(n % 10) + 1]>>

\* value.to_string()
to_string(v) == IF v.kind = "int" THEN Decimal(v.n) ELSE v.s

Spaces(n) == [k \in 1..n |-> " "]

\* "{:w$}" applied to a string: left-aligned, filled with spaces up to the
\* minimum width w, never truncated
Pad(s, w) == IF Len(s) >= w THEN s ELSE s \o Spaces(w - Len(s))

\* str::split_inclusive('\n'): the pieces, each ending with its newline,
\* except possibly the last; no piece for the empty string
RECURSIVE SplitInclusive(_, _)
SplitInclusive(s, cur) ==
  IF s = <<>> THEN (IF cur = <<>> THEN <<>> ELSE <<cur>>)
  ELSE IF Head(s) = NL THEN <<cur \o <<NL>>>> \o SplitInclusive(Tail(s), <<>>)
  ELSE SplitInclusive(Tail(s), cur \o <<Head(s)>>)

StripSuffix(line, c) ==
  IF line # <<>> /\ line[Len(line)] = c THEN Some(SubSeq(line, 1, Len(line) - 1)) ELSE None

\* the closure str::lines maps over the pieces: drop the final "\n", then a "\r"
\* before it
LinesMap(line) ==
  LET a == StripSuffix(line, NL) IN
  IF a = None THEN line
  ELSE LET b == StripSuffix(a[1], "\r") IN IF b = None THEN a[1] ELSE b[1]

\* str::lines
Lines(s) == LET p == SplitInclusive(s, <<>>) IN [k \in 1..Len(p) |-> LinesMap(p[k])]

\* [&str]::join(sep)
RECURSIVE Join(_, _)
Join(ss, sep) ==
  IF ss = <<>> THEN <<>>
  ELSE IF Len(ss) = 1 THEN ss[1]
  ELSE ss[1] \o sep \o Join(Tail(ss), sep)

(* ----------------------------- HtmlElement ------------------------------ *)

HtmlAttribute(name, value) == [name |-> name, value |-> value]

new(name) ==
  [name |-> name, attributes |-> <<>>, content |-> None, children |-> <<>>, void |-> FALSE]

new_void(name) ==
  [name |-> name, attributes |-> <<>>, content |-> None, children |-> <<>>, void |-> TRUE]

\* set_attr replacing the value of an attribute of the same name
set_attr_replacing(self, name, value) ==
  IF \E k \in 1..Len(self.attributes) : self.attributes[k].name = name
  THEN [self EXCEPT !.attributes =
          [k \in 1..Len(@) |-> IF @[k].name = name
                                THEN HtmlAttribute(name, to_string(value)) ELSE @[k]]]
  ELSE [self EXCEPT !.attributes = Append(@, HtmlAttribute(name, to_string(value)))]

set_attr(self, name, value) ==
  [self EXCEPT !.attributes = Append(@, HtmlAttribute(name, to_string(value)))]

set_class(self, class) ==
  [self EXCEPT !.attributes = Append(@, HtmlAttribute(S_class, class))]

new_div(class) ==
  LET element == new(S_div) IN
  IF class # None THEN set_class(element, class[1]) ELSE element

add_child(self, e) == [self EXCEPT !.children = Append(@, e)]

\* add_child_opt appending an empty element for None
add_child_opt_default(self, e) ==
  [self EXCEPT !.children = Append(@, IF e # None THEN e[1] ELSE new(<<>>))]

add_child_opt(self, e) ==
  IF e # None THEN [self EXCEPT !.children = Append(@, e[1])] ELSE self

RECURSIVE add_children(_, _)
add_children(self, elements) ==
  IF elements = <<>> THEN self
  ELSE add_children([self EXCEPT !.children = Append(@, Head(elements))], Tail(elements))

\* set_content turning the element into a leaf
set_content_clearing(self, content) ==
  [self EXCEPT !.content = Some(content), !.children = <<>>]

set_content(self, content) == [self EXCEPT !.content = Some(content)]

\* the attribute loop of write
RECURSIVE WriteAttributes(_, _)
WriteAttributes(attributes, buffer0) ==
  IF attributes = <<>> THEN buffer0
  ELSE WriteAttributes(Tail(attributes),
         buffer0 \o <<" ">> \o Head(attributes).name \o <<"=", "\"">>
                 \o Head(attributes).value \o <<"\"">>)

\* the loop over content.lines() of write
RECURSIVE WriteLines(_, _, _)
WriteLines(lines, indent, buffer0) ==
  IF lines = <<>> THEN buffer0
  ELSE WriteLines(Tail(lines), indent,
         buffer0 \o <<NL>> \o Pad(WS, indent + INDENT) \o Head(lines))

\* the branch of write for an element with content and no children
WriteContent(self, content, indent, buffer0) ==
  LET line_count == Len(Lines(content)) IN
  IF line_count > 1 THEN
    WriteLines(Lines(content), indent, buffer0 \o <<">">>)
      \o <<NL>> \o Pad(WS, indent) \o <<"<", "/">> \o self.name \o <<">">>
  ELSE buffer0 \o <<">">> \o content \o <<"<", "/">> \o self.name \o <<">">>

RECURSIVE write(_, _, _)
RECURSIVE WriteChildren(_, _, _, _)
\* the loop over the children of write
WriteChildren(children, i, indent, buffer0) ==
  IF i > Len(children) THEN buffer0
  ELSE WriteChildren(children, i + 1, indent,
         write(children[i], indent + INDENT,
               IF i > 1 THEN buffer0 \o <<NL>> ELSE buffer0))

\* write with the content tested before the children
write_content_first(self, indent, buffer0) ==
  LET b1 == buffer0 \o Pad(WS, indent) \o <<"<">> \o self.name
      b2 == WriteAttributes(self.attributes, b1)
  IN
  IF self.content # None THEN WriteContent(self, self.content[1], indent, b2)
  ELSE IF self.children = <<>> THEN b2 \o (IF self.void THEN <<">">> ELSE <<"/", ">">>)
  ELSE
    WriteChildren(self.children, 1, indent, b2 \o <<">", NL>>)
      \o <<NL>> \o Pad(WS, indent) \o <<"<", "/">> \o self.name \o <<">">>

write(self, indent, buffer0) ==
  LET b1 == buffer0 \o Pad(WS, indent) \o <<"<">> \o self.name
      b2 == WriteAttributes(self.attributes, b1)
  IN
  IF self.children = <<>> THEN
    IF self.content # None THEN WriteContent(self, self.content[1], indent, b2)
    ELSE b2 \o (IF self.void THEN <<">">> ELSE <<"/", ">">>)
  ELSE
    WriteChildren(self.children, 1, indent, b2 \o <<">", NL>>)
      \o <<NL>> \o Pad(WS, indent) \o <<"<", "/">> \o self.name \o <<">">>

\* impl Display for HtmlElement
HtmlElement_fmt(self) == write(self, 0, <<>>)

(* ----------------------------- HtmlDocument ----------------------------- *)

HtmlDocument_new(lang, styles, body) ==
  LET root0 == set_attr(set_attr(new(S_html), S_lang, StrV(lang)), S_xmlns, StrV(HREF_XMLNS))
      meta == set_attr(new_void(S_meta), S_charset, StrV(S_UTF8))
      title == set_content(new(S_title), S_DMN_Model)
      link1 == set_attr(set_attr(new_void(S_link), S_rel, StrV(S_stylesheet)),
                        S_href, StrV(HREF_FONT_NORMAL))
      link2 == set_attr(set_attr(new_void(S_link), S_rel, StrV(S_stylesheet)),
                        S_href, StrV(HREF_FONT_CONDENSED))
      link3 == set_attr(set_attr(new_void(S_link), S_rel, StrV(S_stylesheet)),
                        S_href, StrV(HREF_FONT_MONO))
      style == set_content(new(S_style), Join(styles, <<NL>>))
      head == add_child(add_child(add_child(add_child(add_child(add_child(
                new(S_head), meta), title), link1), link2), link3), style)
  IN [root |-> add_child(add_child(root0, head), body)]

\* impl Display for HtmlDocument
HtmlDocument_fmt(self) == write(self.root, 0, S_DOCTYPE \o <<NL>>)

(* ------------------------- the caller's inputs -------------------------- *)

Names == {<<"p">>}

Classes == {<<"c">>}

AttrNames == {<<"i","d">>}

AttrValues == {StrV(<<"&">>), IntV(10)}

Contents == {<<>>, <<"x">>, <<"x", NL>>, <<"a", NL, "b">>}

Langs == {<<"e","n">>}

StyleLists == {<<>>, <<<<"a","{","}">>>>, <<<<"a","{","}">>, <<"b","{","}">>>>}

(* ------------------------------ the state ------------------------------- *)

Top(s) == s[Len(s)]

Init ==
  /\ elems = <<>>
  /\ hist = <<>>
  /\ doc = None
  /\ docArgs = None
  /\ buffer = <<>>
  /\ op = <<"start">>
  /\ nops = 0
  /\ pc = "build"

Building == pc = "build" /\ nops < MaxOps

\* the constructed element joins the elements the caller owns
Construct(e, name, void, attrs, call) ==
  /\ Building
  /\ elems' = Append(elems, e)
  /\ hist' = Append(hist, [name |-> name, void |-> void, attrs |-> attrs])
  /\ op' = call
  /\ nops' = nops + 1
  /\ UNCHANGED <<doc, docArgs, buffer, pc>>

New(name) ==
  /\ Building
  /\ Construct(new(name), name, FALSE, <<>>, <<"new", name>>)

NewVoid(name) ==
  /\ Building
  /\ Construct(new_void(name), name, TRUE, <<>>, <<"new_void", name>>)

NewDiv(class) ==
  /\ Building
  /\ Construct(new_div(class), S_div, FALSE,
               IF class = None THEN <<>> ELSE <<<<S_class, StrV(class[1])>>>>,
               <<"new_div", class>>)

\* a method call on the element on top of the stack
Update(e, attrs, call) ==
  /\ Building
  /\ elems # <<>>
  /\ elems' = [elems EXCEPT ![Len(elems)] = e]
  /\ hist' = [hist EXCEPT ![Len(hist)].attrs = @ \o attrs]
  /\ op' = call
  /\ nops' = nops + 1
  /\ UNCHANGED <<doc, docArgs, buffer, pc>>

SetAttr(name, value) ==
  /\ elems # <<>>
  /\ Update(set_attr(Top(elems), name, value), <<<<name, value>>>>, <<"set_attr", name, value>>)

SetClass(class) ==
  /\ elems # <<>>
  /\ Update(set_class(Top(elems), class), <<<<S_class, StrV(class)>>>>, <<"set_class", class>>)

SetContent(content) ==
  /\ elems # <<>>
  /\ Update(set_content(Top(elems), content), <<>>, <<"set_content", content>>)

\* the k elements on top of the stack are moved into the one below them
MoveInto(k, e, call) ==
  /\ Building
  /\ Len(elems) > k
  /\ elems' = Append(SubSeq(elems, 1, Len(elems) - k - 1), e)
  /\ hist' = SubSeq(hist, 1, Len(hist) - k)
  /\ op' = call
  /\ nops' = nops + 1
  /\ UNCHANGED <<doc, docArgs, buffer, pc>>

AddChild ==
  /\ Len(elems) >= 2
  /\ MoveInto(1, add_child(elems[Len(elems) - 1], Top(elems)), <<"add_child", Top(elems)>>)

AddChildOpt(present) ==
  IF present
  THEN /\ Len(elems) >= 2
       /\ MoveInto(1, add_child_opt(elems[Len(elems) - 1], Some(Top(elems))),
                   <<"add_child_opt", Some(Top(elems))>>)
  ELSE /\ Len(elems) >= 1
       /\ MoveInto(0, add_child_opt(Top(elems), None), <<"add_child_opt", None>>)

AddChildren(k) ==
  /\ Len(elems) > k
  /\ LET elements == SubSeq(elems, Len(elems) - k + 1, Len(elems)) IN
     MoveInto(k, add_children(elems[Len(elems) - k], elements), <<"add_children", elements>>)

\* format!("{}", element)
Display ==
  /\ Building
  /\ elems # <<>>
  /\ buffer' = HtmlElement_fmt(Top(elems))
  /\ op' = <<"fmt">>
  /\ nops' = nops + 1
  /\ pc' = "done"
  /\ UNCHANGED <<elems, hist, doc, docArgs>>

\* element.write(indent, &mut buffer) on a new String
Write(indent) ==
  /\ Building
  /\ elems # <<>>
  /\ buffer' = write(Top(elems), indent, <<>>)
  /\ op' = <<"write", indent>>
  /\ nops' = nops + 1
  /\ pc' = "done"
  /\ UNCHANGED <<elems, hist, doc, docArgs>>

\* HtmlDocument::new(lang, styles, body) with the top element as the body
DocNew(lang, styles) ==
  /\ Building
  /\ elems # <<>>
  /\ doc' = Some(HtmlDocument_new(lang, styles, Top(elems)))
  /\ docArgs' = Some([lang |-> lang, styles |-> styles, body |-> Top(elems)])
  /\ elems' = SubSeq(elems, 1, Len(elems) - 1)
  /\ hist' = SubSeq(hist, 1, Len(hist) - 1)
  /\ op' = <<"HtmlDocument::new", lang, styles, Top(elems)>>
  /\ nops' = nops + 1
  /\ pc' = "doc"
  /\ UNCHANGED buffer

\* format!("{}", document)
DocDisplay ==
  /\ pc = "doc"
  /\ nops < MaxOps
  /\ buffer' = HtmlDocument_fmt(doc[1])
  /\ op' = <<"HtmlDocument::fmt">>
  /\ nops' = nops + 1
  /\ pc' = "done"
  /\ UNCHANGED <<elems, hist, doc, docArgs>>

Next ==
  \/ \E name \in Names : New(name)
  \/ \E name \in Names : NewVoid(name)
  \/ \E class \in {None} \cup {Some(c) : c \in Classes} : NewDiv(class)
  \/ \E name \in AttrNames, value \in AttrValues : SetAttr(name, value)
  \/ \E class \in Classes : SetClass(class)
  \/ \E content \in Contents : SetContent(content)
  \/ AddChild
  \/ \E present \in BOOLEAN : AddChildOpt(present)
  \/ \E k \in 0..MaxOps : AddChildren(k)
  \/ Display
  \/ \E level \in 1..MaxLevel : Write(INDENT * level)
  \/ \E lang \in Langs, styles \in StyleLists : DocNew(lang, styles)
  \/ DocDisplay

Spec == Init /\ [][Next]_vars

(* ------------------- vocabulary of the properties ----------------------- *)

\* an element has been serialized, by Display or by the public write
Serialized == pc = "done" /\ op[1] \in {"fmt", "write"}

\* the serialized element and the indent level it was serialized at
Elem == Top(elems)

Level == IF op[1] = "write" THEN op[2] \div INDENT ELSE 0

\* i indentation units of ASCII spaces
Indentation(i) == Spaces(INDENT * i)

IsPrefix(p, s) == Len(p) <= Len(s) /\ SubSeq(s, 1, Len(p)) = p

RECURSIVE Concat(_)
Concat(ss) == IF ss = <<>> THEN <<>> ELSE Head(ss) \o Concat(Tail(ss))

\* one ` name="value"` item
AttrItem(name, value) == <<" ">> \o name \o <<"=", "\"">> \o value \o <<"\"">>

\* `<name` and the items of the element's attributes
OpenTag(e) ==
  <<"<">> \o e.name
    \o Concat([k \in 1..Len(e.attributes) |->
                 AttrItem(e.attributes[k].name, e.attributes[k].value)])

CloseTag(e) == <<"<", "/">> \o e.name \o <<">">>

RECURSIVE DropSpaces(_)
DropSpaces(s) == IF s # <<>> /\ Head(s) = " " THEN DropSpaces(Tail(s)) ELSE s

LeadingSpaces(s) == Len(s) - Len(DropSpaces(s))

\* the elements of a tree with their depths
RECURSIVE Nodes(_, _)
Nodes(e, d) ==
  {<<e, d>>} \cup UNION {Nodes(e.children[k], d + 1) : k \in 1..Len(e.children)}


(* ----------------------- serialization of the tree ---------------------- *)

Indent == IF op[1] = "write" THEN op[2] ELSE 0

\* C1: an element with children, serialized at indent level i, is its opening
\* tag, a newline, the serializations of its children at level i+1 in insertion
\* order, each whole and separated from the previous one by one newline, then a
\* newline, i units of indentation and the closing tag.
C1_ChildrenBlock ==
  (Serialized /\ Elem.children # <<>>) =>
    buffer = Indentation(Level) \o OpenTag(Elem) \o <<">", NL>>
               \o Join([k \in 1..Len(Elem.children) |->
                          write(Elem.children[k], INDENT * (Level + 1), <<>>)], <<NL>>)
               \o <<NL>> \o Indentation(Level) \o CloseTag(Elem)

\* the part of C1 the serializer does meet: below the root (level 1 and deeper)
C1_ChildrenBlockBelowRoot == Level >= 1 => C1_ChildrenBlock

\* C2: in the text of a tree serialized from its root at level 0, the opening
\* tag of every element at depth d is preceded by exactly 2 * d spaces, and the
\* text starts with "<".
C2_DepthIndent ==
  /\ (pc = "done" /\ op[1] = "fmt") =>
       /\ buffer[1] = "<"
       /\ \A n \in Nodes(Elem, 0) :
            LET t == write(n[1], INDENT * n[2], <<>>) IN
            LeadingSpaces(t) = INDENT * n[2] /\ DropSpaces(t)[1] = "<"
  /\ (pc = "done" /\ op[1] = "HtmlDocument::fmt") =>
       /\ buffer[Len(S_DOCTYPE) + 2] = "<"
       /\ \A n \in Nodes(doc[1].root, 0) :
            LET t == write(n[1], INDENT * n[2], <<>>) IN
            LeadingSpaces(t) = INDENT * n[2] /\ DropSpaces(t)[1] = "<"

\* C4: at level 0 an element with no children and no content is `<name`, its
\* attribute items and `>` when constructed void, `/>` otherwise, and nothing
\* else; with children or content the void flag does not change the text.
C4_VoidTail ==
  (Serialized /\ Level = 0) =>
    IF Elem.children = <<>> /\ Elem.content = None
    THEN buffer = OpenTag(Elem) \o (IF Top(hist).void THEN <<">">> ELSE <<"/", ">">>)
    ELSE buffer = write([Elem EXCEPT !.void = ~@], 0, <<>>)

\* C5: an element with no children and multi-line content, serialized at level
\* i, is its opening tag with `>`, then per content line a newline, i+1 units
\* of indentation and the line, then a newline, i units of indentation and the
\* closing tag.
C5_MultiLineContent ==
  (Serialized /\ Elem.children = <<>> /\ Elem.content # None
     /\ Len(Lines(Elem.content[1])) > 1) =>
    LET lines == Lines(Elem.content[1]) IN
    buffer = Indentation(Level) \o OpenTag(Elem) \o <<">">>
               \o Concat([k \in 1..Len(lines) |->
                            <<NL>> \o Indentation(Level + 1) \o lines[k]])
               \o <<NL>> \o Indentation(Level) \o CloseTag(Elem)

\* C6: an element with no children and content of at most one line, serialized
\* at level i, is its opening tag, `>`, the content verbatim and the closing
\* tag, with nothing added in between.
C6_SingleLineContent ==
  (Serialized /\ Elem.children = <<>> /\ Elem.content # None
     /\ Len(Lines(Elem.content[1])) <= 1) =>
    buffer = Indentation(Level) \o OpenTag(Elem) \o <<">">> \o Elem.content[1]
               \o CloseTag(Elem)

\* C8: the text of a document is the DOCTYPE line, one newline and at once the
\* root's opening tag `<html lang="<lang>" xmlns="...">`; the root's children
\* are the fixed head and then the caller's body.
C8_Document ==
  (pc = "done" /\ op[1] = "HtmlDocument::fmt") =>
    LET a == docArgs[1]
        root == doc[1].root
        head == root.children[1]
    IN
    /\ IsPrefix(S_DOCTYPE \o <<NL>> \o <<"<">> \o S_html \o AttrItem(S_lang, a.lang)
                  \o AttrItem(S_xmlns, HREF_XMLNS) \o <<">">>, buffer)
    /\ Len(root.children) = 2
    /\ head.name = S_head
    /\ [k \in 1..Len(head.children) |-> head.children[k].name]
         = <<S_meta, S_title, S_link, S_link, S_link, S_style>>
    /\ head.children[6].content = Some(Join(a.styles, <<NL>>))
    /\ root.children[2] = a.body

\* C3: an element with content set and at least one child serializes to the
\* text of the same element with no content, and so does every such element
\* inside the serialized tree.
C3_ChildrenPrecedence ==
  Serialized =>
    /\ (Elem.content # None /\ Elem.children # <<>>) =>
         buffer = write([Elem EXCEPT !.content = None], Indent, <<>>)
    /\ \A n \in Nodes(Elem, 0) :
         (n[1].content # None /\ n[1].children # <<>>) =>
           write(n[1], Indent + INDENT * n[2], <<>>)
             = write([n[1] EXCEPT !.content = None], Indent + INDENT * n[2], <<>>)

\* an element with non-empty content and a child has been serialized
C3_Witness ==
  /\ Serialized
  /\ Elem.children # <<>>
  /\ Elem.content # None
  /\ Elem.content[1] # <<>>

\* C7: the opening tag carries, after `<name`, one ` name="value"` item per
\* set_attr / set_class call made on the element, in call order, duplicates
\* included, the value's text unescaped, and then ends.
C7_AttributeOrder ==
  Serialized =>
    LET calls == Top(hist).attrs
        tag == <<"<">> \o Top(hist).name
                 \o Concat([k \in 1..Len(calls) |->
                              AttrItem(calls[k][1], to_string(calls[k][2]))])
        text == DropSpaces(buffer)
    IN /\ IsPrefix(tag, text)
       /\ Len(text) > Len(tag)
       /\ text[Len(tag) + 1] \in {">", "/"}

\* an element on which one attribute name was set twice, to different values,
\* has been serialized
C7_Witness ==
  /\ Serialized
  /\ \E j, k \in 1..Len(Top(hist).attrs) :
       /\ j < k
       /\ Top(hist).attrs[j][1] = Top(hist).attrs[k][1]
       /\ Top(hist).attrs[j][2] # Top(hist).attrs[k][2]

(* --------------------------- builder methods ---------------------------- *)

\* add_child applied to each element in order
RECURSIVE AddEach(_, _)
AddEach(self, es) ==
  IF es = <<>> THEN self ELSE AddEach(add_child(self, Head(es)), Tail(es))

\* the owned elements after the k on top were given to parent, which became e
Given(k, e) == Append(SubSeq(elems, 1, Len(elems) - k - 1), e)

\* C9: add_child_opt(None) leaves the elements, and so the text they
\* serialize to, as they were; add_child_opt(Some(e)) does what add_child(e)
\* does; add_children(es) does what add_child does for each element of es in
\* order.
C9_OptionalChild ==
  [][/\ (op'[1] = "add_child_opt" /\ op'[2] = None) =>
          /\ elems' = elems
          /\ HtmlElement_fmt(Top(elems')) = HtmlElement_fmt(Top(elems))
     /\ (op'[1] = "add_child_opt" /\ op'[2] # None) =>
          elems' = Given(1, add_child(elems[Len(elems) - 1], op'[2][1]))
     /\ op'[1] = "add_children" =>
          elems' = Given(Len(op'[2]), AddEach(elems[Len(elems) - Len(op'[2])], op'[2]))
    ]_vars

\* add_child_opt(None) was called on an element that has attributes and children
C9_Witness ==
  /\ op = <<"add_child_opt", None>>
  /\ Top(elems).children # <<>>
  /\ Top(elems).attributes # <<>>

\* C10: every owned element keeps the name and void flag it was constructed
\* with; set_attr / set_class only append one attribute, the add_child family
\* only appends the given children, set_content only replaces the content by
\* the given text, and a serialization changes no element.
C10_Frame ==
  /\ [](\A k \in 1..Len(elems) :
          elems[k].name = hist[k].name /\ elems[k].void = hist[k].void)
  /\ [][LET L == Len(elems)
            self == Top(elems)
            after == Top(elems')
        IN
        /\ op'[1] \in {"set_attr", "set_class"} =>
             /\ Len(after.attributes) = Len(self.attributes) + 1
             /\ after = [self EXCEPT !.attributes = Append(@, Top(after.attributes))]
             /\ Top(after.attributes).name
                  = (IF op'[1] = "set_class" THEN S_class ELSE op'[2])
             /\ SubSeq(elems', 1, L - 1) = SubSeq(elems, 1, L - 1)
        /\ op'[1] = "set_content" =>
             /\ after = [self EXCEPT !.content = Some(op'[2])]
             /\ SubSeq(elems', 1, L - 1) = SubSeq(elems, 1, L - 1)
        /\ op'[1] \in {"add_child", "add_child_opt", "add_children"} =>
             LET k == L - Len(elems')
                 parent == elems[L - k]
             IN /\ after = [parent EXCEPT !.children = @ \o SubSeq(elems, L - k + 1, L)]
                /\ SubSeq(elems', 1, L - k - 1) = SubSeq(elems, 1, L - k - 1)
        /\ op'[1] \in {"fmt", "write", "HtmlDocument::fmt"} =>
             elems' = elems /\ doc' = doc
       ]_vars

\* set_content was called on an element that already had children
C10_Witness ==
  /\ op[1] = "set_content"
  /\ Top(elems).children # <<>>
  /\ Top(elems).attributes # <<>>

====
